---- MODULE Spec2Model ----
(***************************************************************************)
(* A model of the script-level logic of the MAST tutorial notebooks:       *)
(*   - getdss and the cells of interm_tesscut_dss_overlay.ipynb,           *)
(*   - the straight-line cells of the other notebooks that call a remote   *)
(*     service,                                                            *)
(*   - the criteria queries of wildcard_searches.ipynb,                    *)
(*   - the interactive overlay (create_plot and its slider widget),        *)
(*   - the table of contents (_toc.yml) and the book built from it,        *)
(*   - Run All: the code cells of each notebook executed top to bottom.    *)
(* Python strings and byte strings are sequences of one-character strings, *)
(* so that startswith, str.format and os.path.join are computed, not       *)
(* assumed.  Angles (ra, dec) are integers in units of 1e-7 degree, image  *)
(* sizes are integers in units of 0.01 arcmin.                             *)
(***************************************************************************)
EXTENDS Integers, Sequences, FiniteSets, TLC

VARIABLES
    fs,           \* the file system: a function from the paths of the existing files to their content
    dss,          \* the current (or last) call of getdss: its position, its locals, its outcome
    requests,     \* the HTTP requests the current call of getdss has sent (their params)
    prevCall,     \* the arguments and the path of the call of getdss before the current one
    ncalls,       \* how many calls of getdss were made
    globals,      \* the names defined in the kernel of the TESS notebook
    exec,         \* the current (or last) execution of a code cell
    gifExists,    \* whether the gif file of the TPF exists on disk
    nruns,        \* how many cell executions were started
    archive,      \* the observations the MAST archive holds
    observations, \* the notebook's global `observations`: the result of the last query
    answers,      \* for every query made so far, the result it gave
    nqueries,     \* how many queries were made
    env,          \* the objects the globals of the TESS notebook are bound to
    widget,       \* the widget `interactive_plot`: its slider and its fixed arguments
    plotCall,     \* the last call of create_plot: its arguments, the globals before and after
    nmoves,       \* how many times the slider was moved
    book,         \* the build of the book: how far into _toc.yml it is, what it has included
    run           \* a Run All of a notebook: its position, the names bound, the cells executed

dssVars   == <<fs, dss, requests, prevCall, ncalls>>
cellVars  == <<globals, exec, gifExists, nruns>>
queryVars == <<archive, observations, answers, nqueries>>
widgetVars == <<env, widget, plotCall, nmoves>>
bookVars  == <<book>>
runVars   == <<run>>
extraVars == <<widgetVars, bookVars, runVars>>
vars      == <<fs, dss, requests, prevCall, ncalls, globals, exec, gifExists, nruns,
               archive, observations, answers, nqueries,
               env, widget, plotCall, nmoves, book, run>>

(***************************************************************************)
(* Bounds of the model.                                                    *)
(***************************************************************************)
MaxCalls == 2
MaxRuns == 4
MaxQueries == 2
MaxMoves == 2
MaxLen == 4

(***************************************************************************)
(* Python values.                                                          *)
(***************************************************************************)
\* None where a string is expected: no sequence of characters equals it.
NoneStr == <<"None">>
\* None where a number is expected.
NoneNum == -1

\* startswith that compares the first six characters only.
StartsWithSix(s, prefix) ==
    /\ 6 <= Len(s)
    /\ SubSeq(s, 1, 6) = SubSeq(prefix, 1, 6)

StartsWith(s, prefix) ==
    /\ Len(prefix) <= Len(s)
    /\ SubSeq(s, 1, Len(prefix)) = prefix

\* bool(x) of a str or None argument: None and "" are false.
Truthy(s) == s # NoneStr /\ s # <<>>

Abs(n) == IF n < 0 THEN -n ELSE n

DigitChar(d) ==
    CASE d = 0 -> "0" [] d = 1 -> "1" [] d = 2 -> "2" [] d = 3 -> "3" [] d = 4 -> "4"
      [] d = 5 -> "5" [] d = 6 -> "6" [] d = 7 -> "7" [] d = 8 -> "8" [] d = 9 -> "9"

\* The decimal digits of a natural number, without leading zeros.
RECURSIVE Digits(_)
Digits(n) == IF n < 10 THEN <<DigitChar(n)>> ELSE Digits(n \div 10) \o <<DigitChar(n % 10)>>

\* The six digits after the decimal point.
Frac6(k) ==
    << DigitChar((k \div 100000) % 10), DigitChar((k \div 10000) % 10),
       DigitChar((k \div 1000) % 10), DigitChar((k \div 100) % 10),
       DigitChar((k \div 10) % 10), DigitChar(k % 10) >>

\* "{:.6f}".format(x) for x given in units of 1e-7: x is rounded to six decimals
\* (the inputs of the model have no seventh decimal of 5, where the rounding
\* would depend on the binary value of the float) and written with a sign, the
\* integer part, a point and exactly six decimals.
FormatFixed6(x) ==
    LET m == (Abs(x) + 5) \div 10
    IN  (IF x < 0 THEN <<"-">> ELSE <<>>)
        \o Digits(m \div 1000000) \o <<".">> \o Frac6(m % 1000000)

\* os.path.join(a, b) on a POSIX system.
PathJoin(a, b) ==
    IF b # <<>> /\ Head(b) = "/" THEN b
    ELSE IF a = <<>> \/ a[Len(a)] = "/" THEN a \o b
    ELSE a \o <<"/">> \o b

\* The directory part of a path: what precedes its last "/" ("" when it has none).
PathDir(p) ==
    LET slashes == {i \in 1..Len(p) : p[i] = "/"}
    IN  IF slashes = {} THEN <<>>
        ELSE LET last == CHOOSE i \in slashes : \A j \in slashes : j <= i
             IN  IF last = 1 THEN <<"/">> ELSE SubSeq(p, 1, last - 1)

(***************************************************************************)
(* getdss: the constants of its cell.                                      *)
(***************************************************************************)
PlateRed    == <<"r", "e", "d">>
PlateBlue   == <<"b", "l", "u", "e">>
PlateUkred  == <<"u", "k", "r", "e", "d">>
PlateUkblue == <<"u", "k", "b", "l", "u", "e">>

\* plateDict without its last entry.
plateDictKeysShort == {PlateRed, PlateBlue, PlateUkred}

plateDictKeys == {PlateRed, PlateBlue, PlateUkred, PlateUkblue}

plateDict ==
    [p \in plateDictKeys |->
        CASE p = PlateRed    -> <<"2", "r">>
          [] p = PlateBlue   -> <<"2", "b">>
          [] p = PlateUkred  -> <<"p", "o", "s", "s", "2", "u", "k", "s", "t", "u", "_", "r", "e", "d">>
          [] p = PlateUkblue -> <<"p", "o", "s", "s", "2", "u", "k", "s", "t", "u", "_", "b", "l", "u", "e">>]

\* height = 7.0, width = 7.0, in units of 0.01 arcmin.
DefaultSize == 700

\* b"SIMPLE  =": the first bytes of a FITS file.
FitsMagic == <<"S", "I", "M", "P", "L", "E", " ", " ", "=">>

(***************************************************************************)
(* getdss: its steps.                                                      *)
(***************************************************************************)
\* ResolveSize without its `elif width is None` branch.
ResolveSizeNoElif(height, width) ==
    IF height = NoneNum
    THEN IF width # NoneNum THEN <<width, width>> ELSE <<DefaultSize, DefaultSize>>
    ELSE <<height, width>>

\* "set defaults for height & width": <<height, width>> after the step.
ResolveSize(height, width) ==
    IF height = NoneNum
    THEN IF width # NoneNum THEN <<width, width>> ELSE <<DefaultSize, DefaultSize>>
    ELSE IF width = NoneNum THEN <<height, height>> ELSE <<height, width>>

\* plateDict[plate] raises KeyError, which getdss turns into ValueError.
PlateIsLegal(plate) == plate \in DOMAIN plateDict

\* DefaultFilename with the arguments of format in the order (plate, dec, ra).
DefaultFilenameSwapped(plate, ra, dec) ==
    <<"d", "s", "s", "_">> \o plate \o <<"_">> \o FormatFixed6(dec) \o <<"_">>
        \o FormatFixed6(ra) \o <<".", "f", "i", "t", "s">>

\* "dss_{}_{:.6f}_{:.6f}.fits".format(plate, ra, dec)
DefaultFilename(plate, ra, dec) ==
    <<"d", "s", "s", "_">> \o plate \o <<"_">> \o FormatFixed6(ra) \o <<"_">>
        \o FormatFixed6(dec) \o <<".", "f", "i", "t", "s">>

\* "construct filename"
ConstructFilename(plate, ra, dec, filename, directory) ==
    LET name == IF filename = NoneStr THEN DefaultFilename(plate, ra, dec) ELSE filename
    IN  IF Truthy(directory) THEN PathJoin(directory, name) ELSE name

\* The params of the GET request.
RequestParams(ra, dec, vplate, height, width) ==
    [r |-> ra, d |-> dec, v |-> vplate, e |-> "J2000", h |-> height, w |-> width,
     f |-> "fits", c |-> "none", s |-> "yes"]

\* The directories that exist; the current directory is "".
ExistingDirs == {<<>>, <<"d", "a", "t", "a">>, <<"/">>, <<"/", "w">>}

\* open(filename, "wb") succeeds when the directory of the file exists.
CanOpenForWriting(path) == path # <<>> /\ PathDir(path) \in ExistingDirs

\* WriteFile with the file opened in mode "ab": an existing file is kept and
\* the content appended.
WriteFileAppend(files, path, content) ==
    [p \in DOMAIN files \cup {path} |->
        IF p = path
        THEN (IF p \in DOMAIN files THEN files[p] ELSE <<>>) \o content
        ELSE files[p]]

\* open(filename, "wb"); write(content); close(): the file is created or
\* truncated and holds the content.
WriteFile(files, path, content) ==
    [p \in DOMAIN files \cup {path} |-> IF p = path THEN content ELSE files[p]]

NoArgs ==
    [ra |-> 0, dec |-> 0, plate |-> NoneStr, height |-> NoneNum, width |-> NoneNum,
     filename |-> NoneStr, directory |-> NoneStr]

NoCall == [args |-> NoArgs, path |-> NoneStr]

IdleDss ==
    [pc |-> "idle", args |-> NoArgs, height |-> NoneNum, width |-> NoneNum,
     vplate |-> NoneStr, filename |-> NoneStr, named |-> FALSE, exc |-> "none",
     ret |-> NoneStr, opened |-> {}, content |-> NoneStr, fs0 |-> <<>>]

\* getdss from its call to the sending of the request (or to the ValueError
\* for an illegal plate).
GetdssCall(a) ==
    LET size == ResolveSize(a.height, a.width)
        legal == PlateIsLegal(a.plate)
        vplate == IF legal THEN plateDict[a.plate] ELSE NoneStr
        filename == ConstructFilename(a.plate, a.ra, a.dec, a.filename, a.directory)
        started == [IdleDss EXCEPT !.args = a, !.height = size[1], !.width = size[2],
                                   !.fs0 = fs]
    IN  /\ dss.pc # "awaiting"
        /\ ncalls < MaxCalls
        /\ ncalls' = ncalls + 1
        /\ prevCall' = IF dss.named THEN [args |-> dss.args, path |-> dss.filename]
                       ELSE prevCall
        /\ fs' = fs
        /\ IF ~legal
           THEN /\ dss' = [started EXCEPT !.pc = "raised", !.exc = "ValueError: Illegal plate value"]
                /\ requests' = <<>>
           ELSE /\ dss' = [started EXCEPT !.pc = "awaiting", !.vplate = vplate,
                                          !.filename = filename, !.named = TRUE]
                /\ requests' = <<RequestParams(a.ra, a.dec, vplate, size[1], size[2])>>

\* requests.get raises (no connection, a timeout): the exception leaves getdss.
GetdssRequestFails ==
    /\ dss.pc = "awaiting"
    /\ dss' = [dss EXCEPT !.pc = "raised", !.exc = "RequestException"]
    /\ UNCHANGED <<fs, requests, prevCall, ncalls>>

\* requests.get returns a response of the given content: "read and format
\* the output", to the return of the file name.
GetdssResponse(content) ==
    /\ dss.pc = "awaiting"
    /\ IF ~StartsWith(content, FitsMagic)
       THEN /\ dss' = [dss EXCEPT !.pc = "raised", !.content = content,
                                  !.exc = "ValueError: No FITS file returned"]
            /\ fs' = fs
       ELSE IF ~CanOpenForWriting(dss.filename)
       THEN /\ dss' = [dss EXCEPT !.pc = "raised", !.content = content, !.exc = "OSError"]
            /\ fs' = fs
       ELSE /\ dss' = [dss EXCEPT !.pc = "returned", !.content = content,
                                  !.opened = {dss.filename}, !.ret = dss.filename]
            /\ fs' = WriteFile(fs, dss.filename, content)
    /\ UNCHANGED <<requests, prevCall, ncalls>>

(***************************************************************************)
(* The code cells of interm_tesscut_dss_overlay.ipynb, and the cells of    *)
(* the other notebooks that call a remote service.  The kernel runs one    *)
(* cell at a time; the user may run the cells in any order, and again.     *)
(***************************************************************************)
\* ra, dec = 66.582618, -67.806508 in units of 1e-7 degree.
NotebookRa == 665826180
NotebookDec == -678065080
\* arcmin = area.to(u.arcmin).value: 11 pixels of 21 arcsec, in units of 0.01 arcmin.
NotebookArcmin == 385
\* path = os.path.abspath(os.path.curdir)
NotebookPath == <<"/", "w">>

\* getdss(ra, dec, height=arcmin, width=arcmin, directory=path)
NotebookArgs ==
    [ra |-> NotebookRa, dec |-> NotebookDec, plate |-> PlateRed, height |-> NotebookArcmin,
     width |-> NotebookArcmin, filename |-> NoneStr, directory |-> NotebookPath]

NoExec ==
    [cell |-> "none", status |-> "none", issued |-> <<>>, failed |-> "none",
     exc |-> "none", printed |-> <<>>, assigned |-> {}, evaluated |-> {}]

\* The names the import cell and the cell "select a target" define.
SetupGlobals == {"ra", "dec", "target", "x", "y", "path"}

\* A new execution of a cell starts: the kernel is not running another one.
CanRun == exec.status # "running" /\ nruns < MaxRuns

Started(cell) == [NoExec EXCEPT !.cell = cell, !.status = "running"]

\* A cell that reads an undefined name raises NameError at that statement.
NameError(cell) == [Started(cell) EXCEPT !.status = "raised", !.exc = "NameError"]

\* IssuedCalls with a call that fails issued a second time.
IssuedCallsRetry(program, k) ==
    IF k < Len(program)
    THEN SubSeq(program, 1, k + 1) \o <<program[k + 1]>>
    ELSE program

\* The remote calls a straight-line run of `program` issues when its first k
\* calls succeed: every call once, in order, up to the first one that fails.
IssuedCalls(program, k) ==
    SubSeq(program, 1, IF k < Len(program) THEN k + 1 ELSE Len(program))

FailedCall(program, k) == IF k < Len(program) THEN program[k + 1] ELSE "none"

\* DownloadEffect with the two statements of the else branch after the
\* try statement instead of in it.
DownloadEffectNoElse(outcome) ==
    CASE outcome = "ok" ->
            [status |-> "done", printed |-> <<"table">>,
             assigned |-> {"cutout_coords", "table", "files"}]
      [] outcome = "Exception" ->
            [status |-> "done",
             printed |-> <<"Error: Could not download cutouts: e", "table">>,
             assigned |-> {"cutout_coords", "files"}]
      [] outcome = "BaseException" ->
            [status |-> "raised", printed |-> <<>>, assigned |-> {"cutout_coords"}]

\* "download the files and get the list of local paths": what the
\* try/except/else does when Tesscut.download_cutouts returns ("ok"), raises
\* an Exception, or raises a BaseException such as KeyboardInterrupt, which
\* `except Exception` does not catch.
DownloadEffect(outcome) ==
    CASE outcome = "ok" ->
            [status |-> "done", printed |-> <<"table">>,
             assigned |-> {"cutout_coords", "table", "files"}]
      [] outcome = "Exception" ->
            [status |-> "done", printed |-> <<"Error: Could not download cutouts: e">>,
             assigned |-> {"cutout_coords"}]
      [] outcome = "BaseException" ->
            [status |-> "raised", printed |-> <<>>, assigned |-> {"cutout_coords"}]

\* The download cell runs.
DownloadCell(outcome) ==
    LET program == <<"Tesscut.download_cutouts">>
        k == IF outcome = "ok" THEN 1 ELSE 0
        effect == DownloadEffect(outcome)
    IN  /\ CanRun
        /\ nruns' = nruns + 1
        /\ exec' = [Started("download") EXCEPT
                       !.issued = IssuedCalls(program, k),
                       !.failed = FailedCall(program, k),
                       !.exc = IF outcome = "ok" THEN "none" ELSE outcome,
                       !.status = effect.status,
                       !.printed = effect.printed,
                       !.assigned = effect.assigned]
        /\ globals' = globals \cup effect.assigned
        /\ UNCHANGED gifExists

\* "grab the first file in the list ... print some info"
OpenTpfCell ==
    /\ CanRun
    /\ nruns' = nruns + 1
    /\ IF "files" \notin globals
       THEN /\ exec' = NameError("open_tpf")
            /\ globals' = globals
       ELSE /\ exec' = [Started("open_tpf") EXCEPT !.status = "done",
                           !.printed = <<"filename", "Target TPF", "Field of View [degrees]", "Number pixels">>,
                           !.assigned = {"filename", "tpf", "n_pix", "res", "area", "d", "fov", "wcs"}]
            /\ globals' = globals \cup {"filename", "tpf", "n_pix", "res", "area", "d", "fov", "wcs"}
    /\ UNCHANGED gifExists

\* "create the gif": tpf.save_movie runs only when the file does not exist; it
\* writes the file (saved) or raises and writes nothing.
CreateGifCell(saved) ==
    /\ CanRun
    /\ nruns' = nruns + 1
    /\ IF "tpf" \notin globals
       THEN /\ exec' = NameError("create_gif")
            /\ UNCHANGED <<globals, gifExists>>
       ELSE /\ globals' = globals \cup {"gif"}
            /\ IF gifExists
               THEN /\ exec' = [Started("create_gif") EXCEPT !.status = "done", !.assigned = {"gif"}]
                    /\ gifExists' = gifExists
               ELSE /\ exec' = [Started("create_gif") EXCEPT
                                   !.status = IF saved THEN "done" ELSE "raised",
                                   !.exc = IF saved THEN "none" ELSE "Exception",
                                   !.assigned = {"gif"},
                                   !.evaluated = {"tpf.save_movie(gif)"}]
                    /\ gifExists' = saved

\* "display the gif": the message is printed when the file is missing; the
\* statement Image(gif, embed=True) follows the if and is not part of it, and
\* Image raises FileNotFoundError when it embeds a missing file.
DisplayGifCell ==
    /\ CanRun
    /\ nruns' = nruns + 1
    /\ IF "gif" \notin globals
       THEN exec' = NameError("display_gif")
       ELSE exec' = [Started("display_gif") EXCEPT
                        !.printed = IF ~gifExists
                                    THEN <<"No gif found. Cannot display gif of time-series.">>
                                    ELSE <<>>,
                        !.evaluated = {"Image(gif, embed=True)"},
                        !.status = IF gifExists THEN "done" ELSE "raised",
                        !.exc = IF gifExists THEN "none" ELSE "FileNotFoundError"]
    /\ UNCHANGED <<globals, gifExists>>

\* The straight-line cells that call a remote service, with the calls of each
\* in program order.
CellProgram ==
    [c \in {"catalog", "wildcard_case1", "wildcard_toomany", "wildcard_case2", "wildcard_case3",
            "template_query", "template_download", "solutions_cutouts", "solutions_exercise5"} |->
        CASE c = "catalog"             -> <<"Catalogs.query_region">>
          [] c = "wildcard_case1"      -> <<"Observations.query_criteria">>
          [] c = "wildcard_toomany"    -> <<"Observations.query_criteria">>
          [] c = "wildcard_case2"      -> <<"Observations.query_criteria">>
          [] c = "wildcard_case3"      -> <<"Observations.query_criteria">>
          [] c = "template_query"      -> <<"Observations.query_criteria", "Observations.get_product_list">>
          [] c = "template_download"   -> <<"Observations.download_products">>
          [] c = "solutions_cutouts"   -> <<"Tesscut.get_cutouts">>
          [] c = "solutions_exercise5" -> <<"Tesscut.get_sectors", "Tesscut.get_cutouts">>]

\* A straight-line cell runs: its first k remote calls succeed; the call after
\* them, if there is one, raises and ends the cell.
StraightCell(c, k) ==
    /\ CanRun
    /\ nruns' = nruns + 1
    /\ exec' = [Started(c) EXCEPT !.issued = IssuedCalls(CellProgram[c], k),
                                  !.failed = FailedCall(CellProgram[c], k),
                                  !.exc = IF k < Len(CellProgram[c]) THEN "Exception" ELSE "none",
                                  !.status = IF k < Len(CellProgram[c]) THEN "raised" ELSE "done"]
    /\ UNCHANGED <<globals, gifExists>>

\* "retrieve the DSS file": the cell calls getdss, which sends its request.
GetdssCellStart ==
    /\ CanRun
    /\ nruns' = nruns + 1
    /\ IF "area" \notin globals
       THEN /\ exec' = NameError("getdss")
            /\ UNCHANGED dssVars
       ELSE /\ GetdssCall(NotebookArgs)
            /\ exec' = [Started("getdss") EXCEPT
                           !.assigned = {"arcmin"},
                           !.issued = [i \in 1..Len(requests') |-> "requests.get"],
                           !.status = IF dss'.pc = "raised" THEN "raised" ELSE "running",
                           !.exc = IF dss'.pc = "raised" THEN dss'.exc ELSE "none"]
    /\ globals' = IF "area" \in globals THEN globals \cup {"arcmin"} ELSE globals
    /\ UNCHANGED gifExists

\* The request of the cell's getdss call raises.
GetdssCellRequestFails ==
    /\ exec.cell = "getdss" /\ exec.status = "running"
    /\ GetdssRequestFails
    /\ exec' = [exec EXCEPT !.status = "raised", !.failed = "requests.get",
                             !.exc = dss'.exc]
    /\ UNCHANGED <<globals, gifExists, nruns>>

\* The response arrives: getdss returns and the cell prints the file name, or
\* getdss raises.
GetdssCellResponse(content) ==
    /\ exec.cell = "getdss" /\ exec.status = "running"
    /\ GetdssResponse(content)
    /\ IF dss'.pc = "returned"
       THEN /\ exec' = [exec EXCEPT !.status = "done", !.printed = <<"DSS Image:">>,
                                    !.assigned = {"arcmin", "filename"}]
            /\ globals' = globals \cup {"filename"}
       ELSE /\ exec' = [exec EXCEPT !.status = "raised", !.exc = dss'.exc]
            /\ globals' = globals
    /\ UNCHANGED <<gifExists, nruns>>

(***************************************************************************)
(* The criteria queries of wildcard_searches.ipynb.  The matching is done  *)
(* by the MAST service behind astroquery.mast.Observations; the notebook   *)
(* states its semantics in "Wildcards with astroquery.mast.Observations".  *)
(***************************************************************************)
\* WildcardMatch with "%" as in SQL LIKE: a run of characters of any length.
RECURSIVE WildcardMatchLike(_, _)
WildcardMatchLike(pattern, value) ==
    IF pattern = <<>> THEN value = <<>>
    ELSE IF Head(pattern) \in {"*", "%"}
    THEN \E k \in 0..Len(value) :
            WildcardMatchLike(Tail(pattern), SubSeq(value, k + 1, Len(value)))
    ELSE IF value = <<>> THEN FALSE
    ELSE Head(pattern) = Head(value) /\ WildcardMatchLike(Tail(pattern), Tail(value))

\* WildcardMatch with "*" replacing at least one character.
RECURSIVE WildcardMatchNonEmpty(_, _)
WildcardMatchNonEmpty(pattern, value) ==
    IF pattern = <<>> THEN value = <<>>
    ELSE IF Head(pattern) = "*"
    THEN \E k \in 1..Len(value) :
            WildcardMatchNonEmpty(Tail(pattern), SubSeq(value, k + 1, Len(value)))
    ELSE IF value = <<>> THEN FALSE
    ELSE IF Head(pattern) = "%" THEN WildcardMatchNonEmpty(Tail(pattern), Tail(value))
    ELSE Head(pattern) = Head(value) /\ WildcardMatchNonEmpty(Tail(pattern), Tail(value))

\* Whether a value matches a pattern: "%" replaces a single character, "*"
\* replaces a run of characters (of any length) at its place, and every other
\* character stands for itself.
RECURSIVE WildcardMatch(_, _)
WildcardMatch(pattern, value) ==
    IF pattern = <<>> THEN value = <<>>
    ELSE IF Head(pattern) = "*"
    THEN \E k \in 0..Len(value) :
            WildcardMatch(Tail(pattern), SubSeq(value, k + 1, Len(value)))
    ELSE IF value = <<>> THEN FALSE
    ELSE IF Head(pattern) = "%" THEN WildcardMatch(Tail(pattern), Tail(value))
    ELSE Head(pattern) = Head(value) /\ WildcardMatch(Tail(pattern), Tail(value))

\* An observation satisfies the criteria when, for every criterion given, its
\* value matches one of the criterion's values.
Satisfies(obs, criteria) ==
    \A f \in DOMAIN criteria : \E p \in criteria[f] : WildcardMatch(p, obs[f])

\* Observations.query_criteria(**criteria) on the archive.
QueryCriteria(held, criteria) == {o \in held : Satisfies(o, criteria)}

PiEspinoza == <<"E", "s", "p", "i", "n", "o", "z", "a", ",", " ", "N", "e", "s", "t", "o", "r">>

\* The criteria of the queries of the notebook, and of the query with the exact
\* instrument name that Case 1 compares its own with.
Criteria(q) ==
    CASE q = "exact"   -> [proposal_pi |-> {PiEspinoza},
                           instrument_name |-> {<<"N", "I", "R", "I", "S", "S">>}]
      [] q = "case1"   -> [proposal_pi |-> {PiEspinoza},
                           instrument_name |-> {<<"N", "I", "R", "I", "S", "S", "*">>}]
      [] q = "toomany" -> [proposal_pi |-> {PiEspinoza},
                           instrument_name |-> {<<"N", "I", "R", "*">>}]
      [] q = "case2"   -> [proposal_pi |-> {PiEspinoza},
                           instrument_name |-> {<<"N", "I", "R", "I", "S", "S", "*">>},
                           proposal_id |-> {<<"1", "5", "%", "%">>}]
      [] q = "case3"   -> [target_name |-> {<<"*", "6", "7", "P", "*">>},
                           instrument_name |-> {<<"A", "C", "S", "/", "W", "F", "C">>}]

Queries == {"exact", "case1", "toomany", "case2", "case3"}

\* The observations an archive of the model may hold.
Universe ==
    {
      [proposal_pi |-> <<"E", "s", "p", "i", "n", "o", "z", "a", ",", " ", "N", "e", "s", "t", "o", "r">>,
       instrument_name |-> <<"N", "I", "R", "I", "S", "S">>,
       proposal_id |-> <<"1", "5", "4", "1">>,
       target_name |-> <<"W", "A", "S", "P", "-", "3", "9">>],
      [proposal_pi |-> <<"E", "s", "p", "i", "n", "o", "z", "a", ",", " ", "N", "e", "s", "t", "o", "r">>,
       instrument_name |-> <<"N", "I", "R", "I", "S", "S", "/", "I", "M", "A", "G", "E">>,
       proposal_id |-> <<"1", "5", "4", "1">>,
       target_name |-> <<"W", "A", "S", "P", "-", "3", "9">>],
      [proposal_pi |-> <<"E", "s", "p", "i", "n", "o", "z", "a", ",", " ", "N", "e", "s", "t", "o", "r">>,
       instrument_name |-> <<"N", "I", "R", "I", "S", "S", "/", "S", "O", "S", "S">>,
       proposal_id |-> <<"1", "5", "4", "1", "2">>,
       target_name |-> <<"W", "A", "S", "P", "-", "3", "9">>],
      [proposal_pi |-> <<"E", "s", "p", "i", "n", "o", "z", "a", ",", " ", "N", "e", "s", "t", "o", "r">>,
       instrument_name |-> <<"N", "I", "R", "I", "S", "S", "/", "I", "M", "A", "G", "E">>,
       proposal_id |-> <<"1", "5", "4">>,
       target_name |-> <<"W", "A", "S", "P", "-", "3", "9">>],
      [proposal_pi |-> <<"E", "s", "p", "i", "n", "o", "z", "a", ",", " ", "N", "e", "s", "t", "o", "r">>,
       instrument_name |-> <<"N", "I", "R", "I", "S", "S", "/", "S", "O", "S", "S">>,
       proposal_id |-> <<"2", "5", "4", "1">>,
       target_name |-> <<"W", "A", "S", "P", "-", "3", "9">>],
      [proposal_pi |-> <<"E", "s", "p", "i", "n", "o", "z", "a", ",", " ", "N", "e", "s", "t", "o", "r">>,
       instrument_name |-> <<"N", "I", "R", "S", "P", "E", "C", "/", "S", "L", "I", "T">>,
       proposal_id |-> <<"1", "5", "4", "1">>,
       target_name |-> <<"W", "A", "S", "P", "-", "3", "9">>],
      [proposal_pi |-> <<"E", "s", "p", "i", "n", "o", "z", "a", ",", " ", "N", "e", "s", "t", "o", "r">>,
       instrument_name |-> <<"M", "I", "R", "I", "/", "I", "M", "A", "G", "E">>,
       proposal_id |-> <<"1", "5">>,
       target_name |-> <<"W", "A", "S", "P", "-", "3", "9">>],
      [proposal_pi |-> <<"O", "t", "h", "e", "r", ",", " ", "P", "i">>,
       instrument_name |-> <<"N", "I", "R", "I", "S", "S", "/", "I", "M", "A", "G", "E">>,
       proposal_id |-> <<"1", "5", "4", "1">>,
       target_name |-> <<"W", "A", "S", "P", "-", "3", "9">>],
      [proposal_pi |-> <<"O", "t", "h", "e", "r", ",", " ", "P", "i">>,
       instrument_name |-> <<"A", "C", "S", "/", "W", "F", "C">>,
       proposal_id |-> <<"1", "5", "4", "1">>,
       target_name |-> <<"C", "O", "M", "E", "T", "-", "6", "7", "P", "-", "C", "G">>],
      [proposal_pi |-> <<"O", "t", "h", "e", "r", ",", " ", "P", "i">>,
       instrument_name |-> <<"A", "C", "S", "/", "W", "F", "C">>,
       proposal_id |-> <<"9", "7", "1", "3">>,
       target_name |-> <<"6", "7", "P">>],
      [proposal_pi |-> <<"O", "t", "h", "e", "r", ",", " ", "P", "i">>,
       instrument_name |-> <<"A", "C", "S", "/", "W", "F", "C">>,
       proposal_id |-> <<"9", "7", "1", "3">>,
       target_name |-> <<"M", "6", "7">>]
    }

\* A query cell runs: `observations` is bound to the result.
Query(q) ==
    /\ nqueries < MaxQueries
    /\ nqueries' = nqueries + 1
    /\ observations' = QueryCriteria(archive, Criteria(q))
    /\ answers' = [a \in DOMAIN answers \cup {q} |->
                      IF a = q THEN observations' ELSE answers[a]]
    /\ UNCHANGED archive

(***************************************************************************)
(* Inputs of the model.                                                    *)
(***************************************************************************)
\* Response bodies: FITS files, and bodies that are not FITS.
FitsA == FitsMagic \o <<" ", "T">>
FitsB == FitsMagic \o <<" ", "F">>
HtmlError == <<"<", "h", "t", "m", "l", ">">>
OneSpace == <<"S", "I", "M", "P", "L", "E", " ", "=", " ", "T">>
Shifted == <<" ">> \o FitsMagic
LowerCase == <<"s", "i", "m", "p", "l", "e", " ", " ", "=">>
Truncated == <<"S", "I", "M", "P", "L", "E">>

AllContents == {FitsA, FitsB, FitsMagic, HtmlError, OneSpace, Shifted, LowerCase, Truncated, <<>>}
FewContents == {FitsA, HtmlError}

OldContent == <<"o", "l", "d">>

FileOut == <<"o", "u", "t", ".", "f", "i", "t", "s">>
FileAbs == <<"/", "w", "/", "o", "u", "t", ".", "f", "i", "t", "s">>
DirData == <<"d", "a", "t", "a">>
DirMissing == <<"n", "o", "d", "i", "r">>
PlateGreen == <<"g", "r", "e", "e", "n">>
PlateCapital == <<"R", "e", "d">>

\* ra = 66.5826184 rounds to the six decimals of the notebook's ra; ra = 1.5.
RaValues == {NotebookRa, NotebookRa + 4, 15000000}

DefaultArgs ==
    [ra |-> NotebookRa, dec |-> NotebookDec, plate |-> PlateRed, height |-> NoneNum,
     width |-> NoneNum, filename |-> NoneStr, directory |-> NoneStr]

SizeArgs ==
    {[DefaultArgs EXCEPT !.height = h, !.width = w, !.plate = p] :
        h \in {NoneNum, 0, NotebookArcmin}, w \in {NoneNum, 0, 500},
        p \in {PlateRed, PlateGreen}}

PlateArgs ==
    {[DefaultArgs EXCEPT !.plate = p, !.filename = f, !.directory = d] :
        p \in {PlateRed, PlateBlue, PlateUkred, PlateUkblue,
                PlateGreen, PlateCapital, <<>>, NoneStr},
        f \in {NoneStr, FileOut}, d \in {NoneStr, DirData}}

WriteArgs ==
    {[DefaultArgs EXCEPT !.filename = f, !.directory = d] :
        f \in {NoneStr, FileOut}, d \in {NoneStr, DirData, DirMissing}}

NameArgs ==
    {[DefaultArgs EXCEPT !.ra = r, !.plate = p, !.filename = f, !.directory = d] :
        r \in RaValues, p \in {PlateRed, PlateUkblue},
        f \in {NoneStr, FileOut, FileAbs}, d \in {NoneStr, <<>>, DirData}}

\* The file system before the first call: empty, or holding one older file
\* where a call may write.
InitialFileSystems ==
    {<<>>} \cup
    {[p \in {path} |-> OldContent] :
        path \in {FileOut, PathJoin(DirData, FileOut),
                  DefaultFilename(PlateRed, NotebookRa, NotebookDec)}}

(***************************************************************************)
(* The interactive overlay of interm_tesscut_dss_overlay.ipynb.            *)
(* A global of the kernel is bound to an object.  An object is written as  *)
(* the expression that made it and the number of times that expression     *)
(* was evaluated, so that running a cell again binds its names to new      *)
(* objects.  Opacities (alpha) are integers in units of 0.1.               *)
(***************************************************************************)
Obj(e, v) == [expr |-> e, v |-> v]
Unbound == Obj("unbound", 0)

TessWcs == "WCS(tpf.hdulist['APERTURE'].header)"
DssWcs == "WCS(dss[0].header)"

\* The cells above the overlay that bind the globals the overlay uses, and
\* the expression each of them binds to each name.
CellAssigns ==
    [open_tpf   |-> [wcs |-> TessWcs],
     tic        |-> [tic_ra |-> "catalogData['ra']", tic_dec |-> "catalogData['dec']"],
     show_tess  |-> [norm |-> "simple_norm(data, 'log')",
                     ax |-> "plt.subplot(projection=wcs if use_wcs else None)"],
     show_dss   |-> [dss_data |-> "dss[0].data", dss_wcs |-> DssWcs,
                     ax |-> "plt.subplot(projection=dss_wcs)"],
     reproject  |-> [reproj_tesscut |-> "reproject_interp((data, wcs,), dss_wcs, ...)[0]"]]

GlobalNames ==
    {"ra", "dec", "wcs", "tic_ra", "tic_dec", "norm", "ax", "dss_data", "dss_wcs",
     "reproj_tesscut", "interactive_plot", "output"}

\* Running cell c: every name it assigns is bound to a new object.
RunAssigns(e, c) ==
    [n \in GlobalNames |->
        IF n \in DOMAIN CellAssigns[c] THEN Obj(CellAssigns[c][n], e[n].v + 1) ELSE e[n]]

\* The globals after the cells above the overlay have run top to bottom, once.
OverlayGlobals ==
    LET e0 == [n \in GlobalNames |->
                  CASE n = "ra"  -> Obj("66.582618", 1)
                    [] n = "dec" -> Obj("-67.806508", 1)
                    [] OTHER     -> Unbound]
        e1 == RunAssigns(e0, "open_tpf")
        e2 == RunAssigns(e1, "tic")
        e3 == RunAssigns(e2, "show_tess")
        e4 == RunAssigns(e3, "show_dss")
    IN  RunAssigns(e4, "reproject")

\* def create_plot(background_img, foreground_img, alpha, norm, wcs, ra, dec)
CreatePlotParams == {"background_img", "foreground_img", "alpha", "norm", "wcs", "ra", "dec"}
\* The names the body of create_plot assigns, and those it declares global.
CreatePlotAssigned == {"ax"}
CreatePlotGlobalDecls == {}

\* The globals after a call of create_plot.  A parameter, and a name the
\* body assigns without declaring it global, is a local of the call.
CreatePlotGlobals(e, kw) ==
    [n \in GlobalNames |->
        IF n \in (CreatePlotAssigned \ CreatePlotParams) \cap CreatePlotGlobalDecls
        THEN Obj("plt.subplot(projection=wcs)", e[n].v + 1)
        ELSE e[n]]

\* What a call of create_plot draws.
CreatePlotFigure(kw) ==
    [projection |-> kw["wcs"],
     background |-> kw["background_img"],
     foreground |-> kw["foreground_img"],
     alpha      |-> kw["alpha"],
     norm       |-> kw["norm"],
     scatter    |-> <<kw["ra"], kw["dec"]>>]

\* alpha=(0.0,1.0): a slider from 0.0 to 1.0, which starts in the middle
\* and keeps its value within its range.
AlphaMin == 0
AlphaMax == 10
SliderInitial == (AlphaMin + AlphaMax) \div 2
SliderClamp(v) == IF v < AlphaMin THEN AlphaMin ELSE IF v > AlphaMax THEN AlphaMax ELSE v

\* The arguments wrapped in fixed(): the parameter and the global it is taken from.
FixedArgs ==
    [background_img |-> "dss_data",
     foreground_img |-> "reproj_tesscut",
     norm           |-> "norm",
     wcs            |-> "dss_wcs",
     ra             |-> "tic_ra",
     dec            |-> "tic_dec"]

\* fixed(x) holds the object x is bound to when the cell runs.
Fixed(e) == [p \in DOMAIN FixedArgs |-> e[FixedArgs[p]]]

NoWidget == [built |-> FALSE, alpha |-> SliderInitial,
             fixed |-> [p \in DOMAIN FixedArgs |-> Unbound],
             globals0 |-> [n \in GlobalNames |-> Unbound]]

NoPlot == [made |-> FALSE,
           kwargs |-> [p \in CreatePlotParams |-> IF p = "alpha" THEN SliderInitial ELSE Unbound],
           before |-> [n \in GlobalNames |-> Unbound],
           after  |-> [n \in GlobalNames |-> Unbound],
           figure |-> CreatePlotFigure([p \in CreatePlotParams |->
                                           IF p = "alpha" THEN SliderInitial ELSE Unbound])]

\* A widget that would look its arguments up in the globals at every call.
WidgetKwargsLive(w, e) ==
    [p \in CreatePlotParams |-> IF p = "alpha" THEN w.alpha ELSE e[FixedArgs[p]]]

\* The keyword arguments widget w calls create_plot with, the globals being e.
WidgetKwargs(w, e) ==
    [p \in CreatePlotParams |-> IF p = "alpha" THEN w.alpha ELSE w.fixed[p]]

\* interactive.update: the widget calls create_plot.
Update(w, e) ==
    LET kw == WidgetKwargs(w, e) IN
    /\ plotCall' = [made |-> TRUE, kwargs |-> kw, before |-> e,
                    after |-> CreatePlotGlobals(e, kw), figure |-> CreatePlotFigure(kw)]
    /\ env' = CreatePlotGlobals(e, kw)

\* The user runs again one of the cells above the overlay.
RerunCell(c) ==
    /\ nruns < MaxRuns
    /\ nruns' = nruns + 1
    /\ env' = RunAssigns(env, c)
    /\ UNCHANGED <<widget, plotCall, nmoves>>

\* The cell that builds and displays the widget; displaying it draws the
\* first plot.
InteractiveCell ==
    /\ nruns < MaxRuns
    /\ \A p \in DOMAIN FixedArgs : env[FixedArgs[p]] # Unbound
    /\ nruns' = nruns + 1
    /\ LET w  == [built |-> TRUE, alpha |-> SliderInitial, fixed |-> Fixed(env),
                  globals0 |-> env]
           e1 == [env EXCEPT
                    !["interactive_plot"] = Obj("interactive(create_plot, ...)", @.v + 1),
                    !["output"] = Obj("interactive_plot.children[-1]", @.v + 1)]
       IN  /\ widget' = w
           /\ Update(w, e1)
    /\ UNCHANGED nmoves

\* The slider is asked to take value v.
SliderMove(v) ==
    /\ widget.built
    /\ nmoves < MaxMoves
    /\ SliderClamp(v) # widget.alpha
    /\ nmoves' = nmoves + 1
    /\ widget' = [widget EXCEPT !.alpha = SliderClamp(v)]
    /\ Update([widget EXCEPT !.alpha = SliderClamp(v)], env)
    /\ UNCHANGED nruns

(***************************************************************************)
(* The table of contents, _toc.yml, and the book built from it.  A path is *)
(* relative to the directory of _toc.yml, as the paths of its file: keys   *)
(* are.                                                                    *)
(***************************************************************************)
RootFile == "intro"

Toc ==
  <<
     [caption |-> "Astrocut",
      chapters |-> <<
          [file |-> "notebooks/astrocut/making_tess_cubes_and_cutouts/making_tess_cubes_and_cutouts.ipynb", sections |-> <<>>]>>],
     [caption |-> "Astroquery",
      chapters |-> <<
          [file |-> "notebooks/astroquery/intro.md", sections |-> <<>>],
          [file |-> "notebooks/astroquery/nb.md",
           sections |-> <<
               "notebooks/astroquery/beginner_search/beginner_search.ipynb",
               "notebooks/astroquery/beginner_zcut/beginner_zcut.ipynb",
               "notebooks/astroquery/large_downloads/large_downloads.ipynb",
               "notebooks/astroquery/historic_quasar_observations/historic_quasar_observations.ipynb">>]>>],
     [caption |-> "GALEX",
      chapters |-> <<
          [file |-> "notebooks/GALEX/mis-mosaic/mis-mosaic.ipynb", sections |-> <<>>]>>],
     [caption |-> "HSC",
      chapters |-> <<
          [file |-> "notebooks/HSC/HCV_API/HCV_API_demo.ipynb", sections |-> <<>>],
          [file |-> "notebooks/MAST/HSC/HCV_CASJOBS/HCV_casjobs_demo.ipynb", sections |-> <<>>],
          [file |-> "notebooks/HSC/HSCV3_API/hscv3_api.ipynb", sections |-> <<>>],
          [file |-> "notebooks/HSC/HSCV3_SMC_API/hscv3_smc_api.ipynb", sections |-> <<>>],
          [file |-> "notebooks/HSC/HSC_TAP/HSC_TAP.ipynb", sections |-> <<>>],
          [file |-> "notebooks/HSC/SWEEPS_HSCV3P1/sweeps_hscv3p1.ipynb", sections |-> <<>>],
          [file |-> "notebooks/MAST/HSC/SWEEPS_HSCV3P1_API/sweeps_hscv3p1_api.ipynb", sections |-> <<>>]>>],
     [caption |-> "IUE",
      chapters |-> <<
          [file |-> "notebooks/IUE/exploring_UV_extinction_curves/exploring_UV_extinction_curves.ipynb", sections |-> <<>>]>>],
     [caption |-> "JWST",
      chapters |-> <<
          [file |-> "notebooks/JWST/download_by_program_id/download_by_program_id.ipynb", sections |-> <<>>],
          [file |-> "notebooks/JWST/Engineering_Database_Retreival/EDB_Retrieval.ipynb", sections |-> <<>>],
          [file |-> "notebooks/JWST/SI_keyword_exoplanet_search/SI_keyword_exoplanet_search.ipynb", sections |-> <<>>]>>],
     [caption |-> "Kepler",
      chapters |-> <<
          [file |-> "notebooks/Kepler/beginner.md",
           sections |-> <<
               "notebooks/Kepler/plotting_lightcurves/plotting_lightcurves.ipynb",
               "notebooks/Kepler/plotting_images_from_tpf/plotting_images_from_tpf.ipynb",
               "notebooks/Kepler/plotting_dvts/plotting_dvts.ipynb",
               "notebooks/Kepler/plotting_catalog_over_FFI/plotting_catalog_over_FFI.ipynb">>],
          [file |-> "notebooks/Kepler/lightkurve.md",
           sections |-> <<
               "notebooks/Kepler/lightkurve_analyzing_lc_products/lightkurve_analyzing_lc_products.ipynb",
               "notebooks/Kepler/lightkurve_analyzing_tpf_products/lightkurve_analyzing_tpf_products.ipynb",
               "notebooks/Kepler/lightkurve_searching_for_data/lightkurve_searching_for_data.ipynb",
               "notebooks/Kepler/lightkurve_custom_aperture_photometry/lightkurve_custom_aperture_photometry.ipynb",
               "notebooks/Kepler/lightkurve_combining_multiple_quarters/lightkurve_combining_multiple_quarters.ipynb",
               "notebooks/Kepler/lightkurve_interactively_inspecting_TPFs_and_LCs/lightkurve_interactively_inspecting_TPFs_and_LCs.ipynb">>],
          [file |-> "notebooks/Kepler/inst_noise.md",
           sections |-> <<
               "notebooks/Kepler/instrumental_noise_1_data_gaps_and_quality_flags/instrumental_noise_1_data_gaps_and_quality_flags.ipynb",
               "notebooks/Kepler/instrumental_noise_2_spurious_signals_and_time_sampling_effects/instrumental_noise_2_spurious_signals_and_time_sampling_effects.ipynb",
               "notebooks/Kepler/instrumental_noise_3_seasonal_and_detector_effects/instrumental_noise_3_seasonal_and_detector_effects.ipynb",
               "notebooks/Kepler/instrumental_noise_4_electronic_noise/instrumental_noise_4_electronic_noise.ipynb">>],
          [file |-> "notebooks/Kepler/signals.md",
           sections |-> <<
               "notebooks/Kepler/identifying_transiting_planet_signals/identifying_transiting_planet_signals.ipynb",
               "notebooks/Kepler/measuring_a_rotation_period/measuring_a_rotation_period.ipynb",
               "notebooks/Kepler/visualizing_periodic_signals_using_a_river_plot/visualizing_periodic_signals_using_a_river_plot.ipynb",
               "notebooks/Kepler/verifying_the_location_of_a_signal/verifying_the_location_of_a_signal.ipynb">>],
          [file |-> "notebooks/Kepler/periodograms.md",
           sections |-> <<
               "notebooks/Kepler/creating_periodograms/creating_periodograms.ipynb",
               "notebooks/Kepler/how_to_understand_and_manipulate_the_periodogram_of_an_oscillating_star/how_to_understand_and_manipulate_the_periodogram_of_an_oscillating_star.ipynb",
               "notebooks/Kepler/how_to_estimate_a_stars_mass_and_radius_using_asteroseismology/how_to_estimate_a_stars_mass_and_radius_using_asteroseismology.ipynb">>]>>],
     [caption |-> "K2",
      chapters |-> <<
          [file |-> "notebooks/K2/lightcurve/lightcurve.ipynb", sections |-> <<>>],
          [file |-> "notebooks/K2/TPF/TPF.ipynb", sections |-> <<>>],
          [file |-> "notebooks/K2/beginner_how_to_use_ffi/beginner_how_to_use_ffi.ipynb", sections |-> <<>>],
          [file |-> "notebooks/K2/removing_instrumental_noise_using_pld/removing_instrumental_noise_using_pld.ipynb", sections |-> <<>>]>>],
     [caption |-> "MCCM",
      chapters |-> <<
          [file |-> "notebooks/MCCM/FIMS-SPEAR/hyperspectral_healpix_maps/hyperspectral_healpix_maps.ipynb", sections |-> <<>>]>>],
     [caption |-> "PanSTARRS",
      chapters |-> <<
          [file |-> "notebooks/PanSTARRS/PS1_DR2_TAP/PS1_DR2_TAP.ipynb", sections |-> <<>>],
          [file |-> "notebooks/PanSTARRS/PS1_image/PS1_image.ipynb", sections |-> <<>>]>>],
     [caption |-> "TESS",
      chapters |-> <<
          [file |-> "notebooks/TESS/beginner.md",
           sections |-> <<
               "notebooks/TESS/beginner_astroquery_dv/beginner_astroquery_dv.ipynb",
               "notebooks/TESS/beginner_how_to_use_dvt/beginner_how_to_use_dvt.ipynb",
               "notebooks/TESS/beginner_how_to_use_ffi/beginner_how_to_use_ffi.ipynb",
               "notebooks/TESS/beginner_how_to_use_lc/beginner_how_to_use_lc.ipynb",
               "notebooks/TESS/beginner_how_to_use_tp/beginner_how_to_use_tp.ipynb",
               "notebooks/TESS/beginner_tess_exomast/beginner_tess_exomast.ipynb",
               "notebooks/TESS/beginner_tess_tap_search/beginner_tess_tap_search.ipynb",
               "notebooks/TESS/beginner_tic_search_hd209458/beginner_tic_search_hd209458.ipynb",
               "notebooks/TESS/beginner_tour_lc_tp/beginner_tour_lc_tp.ipynb",
               "notebooks/TESS/beginner_tesscut_astroquery/beginner_tesscut_astroquery.ipynb">>],
          [file |-> "notebooks/TESS/lc.md",
           sections |-> <<
               "notebooks/TESS/interm_gi_query/interm_gi_query.ipynb",
               "notebooks/TESS/interm_tasoc_lc/interm_tasoc_lc.ipynb",
               "notebooks/TESS/asteroid_rotation/asteroid_rotation.ipynb">>],
          [file |-> "notebooks/TESS/FFIs.md",
           sections |-> <<
               "notebooks/TESS/interm_tesscut_dss_overlay/interm_tesscut_dss_overlay.ipynb",
               "notebooks/TESS/interm_tesscut_requests/interm_tesscut_requests.ipynb">>],
          [file |-> "notebooks/TESS/noise.md",
           sections |-> <<
               "notebooks/TESS/interm_tess_prf_retrieve/interm_tess_prf_retrieve.ipynb",
               "notebooks/TESS/removing_scattered_light_using_regression/removing_scattered_light_using_regression.ipynb">>]>>]
  >>

\* The file: entries of a chapter, of the chapters and of the parts from the
\* k-th on, in the order of the document.
ChapterFiles(ch) == <<ch.file>> \o ch.sections

RECURSIVE ChaptersFiles(_, _)
ChaptersFiles(chs, k) ==
    IF k > Len(chs) THEN <<>> ELSE ChapterFiles(chs[k]) \o ChaptersFiles(chs, k + 1)

RECURSIVE PartsFiles(_, _)
PartsFiles(parts, k) ==
    IF k > Len(parts) THEN <<>>
    ELSE ChaptersFiles(parts[k].chapters, 1) \o PartsFiles(parts, k + 1)

TocFiles == PartsFiles(Toc, 1)

\* The tutorial notebooks present under notebooks/.
NotebooksPresent ==
    {"notebooks/astroquery/wildcard_searches/wildcard_searches.ipynb",
     "notebooks/TESS/interm_tesscut_dss_overlay/interm_tesscut_dss_overlay.ipynb"}

\* Before the first entry the book has its root page only.
NoBook == [pos |-> 0, pages |-> {RootFile}, missing |-> FALSE, done |-> FALSE]

\* The build takes the next file: entry.  The file is there or, if it is
\* not one of the files known to be present, it may be missing; a missing
\* file ends the build without a book.
BookEntry(there) ==
    /\ ~book.done /\ ~book.missing
    /\ book.pos < Len(TocFiles)
    /\ TocFiles[book.pos + 1] \in NotebooksPresent => there
    /\ book' = IF there
               THEN [book EXCEPT !.pos = @ + 1, !.pages = @ \cup {TocFiles[book.pos + 1]}]
               ELSE [book EXCEPT !.missing = TRUE]

\* No entry is left: the book is made of the root and the files included.
BookDone ==
    /\ ~book.done /\ ~book.missing
    /\ book.pos = Len(TocFiles)
    /\ book' = [book EXCEPT !.done = TRUE]

(***************************************************************************)
(* Run All: the code cells of a notebook executed top to bottom in a fresh *)
(* kernel.  A cell is the sequence of its statements.  A statement binds   *)
(* names (defs), reads names (uses), subscripts collections with a         *)
(* constant (idxConst) or with the loop variable (idxVar), and sets the    *)
(* length of a collection: to what a library call returned (input), to a   *)
(* constant (create), or to one more (append).  Only the names the         *)
(* notebook itself binds are listed in uses.  A for statement is followed  *)
(* by the statements of its body; a statement of the branches of           *)
(* `if i==0: ... else: ...` in a body is marked first or later.  Every     *)
(* library call returns; the statements of a try block and of its else     *)
(* branch are therefore listed in line.                                    *)
(***************************************************************************)
Stmt(when, defs, uses) ==
    [op |-> "stmt", when |-> when, defs |-> defs, uses |-> uses,
     idxConst |-> {}, idxVar |-> {}, input |-> {}, create |-> {}, append |-> {},
     var |-> "", over |-> "", n |-> 0, body |-> 0]

\* for var in range(len(over)), or in range(n) when over is "", with a body
\* of the given number of statements.
For(var, over, n, body, uses) ==
    [Stmt("always", {}, uses) EXCEPT !.op = "for", !.var = var, !.over = over,
                                     !.n = n, !.body = body]

\* The code cells of interm_tesscut_dss_overlay.ipynb, top to bottom.
ProgramTess ==
  <<
     \* lines 69-91
     <<
       Stmt("always", {"os"}, {}),
       Stmt("always", {"np"}, {}),
       Stmt("always", {"requests"}, {}),
       Stmt("always", {"k2flix"}, {}),
       Stmt("always", {}, {}),
       Stmt("always", {"plt"}, {}),
       Stmt("always", {"Tesscut"}, {}),
       Stmt("always", {"Catalogs"}, {}),
       Stmt("always", {"u"}, {}),
       Stmt("always", {"fits"}, {}),
       Stmt("always", {"WCS"}, {}),
       Stmt("always", {"SkyCoord"}, {}),
       Stmt("always", {"simple_norm"}, {}),
       Stmt("always", {"reproject_interp"}, {}),
       Stmt("always", {"Image"}, {}),
       Stmt("always", {"fixed", "interact", "interact_manual", "interactive"}, {})
     >>,
     \* lines 109-115
     <<
       Stmt("always", {"dec", "ra"}, {}),
       Stmt("always", {"target"}, {"dec", "ra"}),
       Stmt("always", {"x", "y"}, {}),
       Stmt("always", {"path"}, {"os"})
     >>,
     \* lines 133-143
     <<
       Stmt("always", {"cutout_coords"}, {"SkyCoord", "dec", "ra"}),
       Stmt("always", {"table"}, {"Tesscut", "cutout_coords", "path", "x"}),
       Stmt("always", {}, {"table"}),
       Stmt("always", {"files"}, {"table"})
     >>,
     \* lines 161-183
     <<
       Stmt("always", {"filename"}, {"files"}),
       Stmt("always", {"tpf"}, {"filename", "k2flix"}),
       Stmt("always", {"n_pix"}, {"tpf"}),
       Stmt("always", {"res"}, {"u"}),
       Stmt("always", {"area"}, {"n_pix", "res", "u"}),
       Stmt("always", {"d"}, {"area", "u"}),
       Stmt("always", {"fov"}, {"d"}),
       Stmt("always", {"wcs"}, {"WCS", "tpf"}),
       Stmt("always", {}, {"tpf"}),
       Stmt("always", {}, {"target"}),
       Stmt("always", {}, {"fov"}),
       Stmt("always", {}, {"tpf"})
     >>,
     \* lines 201-204
     <<
       Stmt("always", {"gif"}, {"tpf"}),
       Stmt("always", {}, {"gif", "os"})
     >>,
     \* lines 213-217
     <<
       Stmt("always", {}, {"gif", "os"}),
       Stmt("always", {}, {"Image", "gif"})
     >>,
     \* lines 235-237
     <<
       Stmt("always", {"catalogData"}, {"Catalogs", "fov", "target"}),
       Stmt("always", {}, {"catalogData"}),
       Stmt("always", {}, {"catalogData"})
     >>,
     \* lines 255-262
     <<
       Stmt("always", {"tic_ra"}, {"catalogData"}),
       Stmt("always", {"tic_dec"}, {"catalogData"}),
       Stmt("always", {"coords"}, {"tic_dec", "tic_ra", "wcs"}),
       Stmt("always", {"xc"}, {"coords"}),
       Stmt("always", {"yc"}, {"coords"})
     >>,
     \* lines 278-306
     <<
       [Stmt("always", {"data"}, {"tpf"}) EXCEPT !.input = {"data"}],
       Stmt("always", {"norm"}, {"data", "simple_norm"}),
       Stmt("always", {"use_wcs"}, {}),
       Stmt("always", {"ax"}, {"plt", "use_wcs", "wcs"}),
       Stmt("always", {}, {"ax", "data", "norm"}),
       Stmt("always", {}, {"ax", "xc", "yc"}),
       Stmt("always", {}, {"ax"}),
       Stmt("always", {}, {"use_wcs"})
     >>,
     \* lines 322-339
     <<
       Stmt("always", {"ax1"}, {"plt"}),
       Stmt("always", {}, {"ax1", "data", "norm"}),
       Stmt("always", {}, {"ax1", "xc", "yc"}),
       Stmt("always", {}, {"ax1"}),
       Stmt("always", {}, {"ax1"}),
       Stmt("always", {}, {"ax1"}),
       Stmt("always", {"ax2"}, {"plt", "wcs"}),
       Stmt("always", {}, {"ax2", "data", "norm"}),
       Stmt("always", {}, {"ax2"}),
       Stmt("always", {}, {"ax2"}),
       Stmt("always", {}, {"ax2", "tic_dec", "tic_ra"}),
       Stmt("always", {}, {"ax2"}),
       Stmt("always", {}, {"ax1"}),
       Stmt("always", {}, {"ax2"})
     >>,
     \* lines 357-417
     <<
       Stmt("always", {"url"}, {}),
       Stmt("always", {"plateDict"}, {}),
       Stmt("always", {"getdss"}, {})
     >>,
     \* lines 433-438
     <<
       Stmt("always", {"arcmin"}, {"area", "u"}),
       Stmt("always", {"filename"}, {"arcmin", "dec", "getdss", "path", "ra"}),
       Stmt("always", {}, {"filename"})
     >>,
     \* lines 454-466
     <<
       Stmt("always", {"dss"}, {"filename", "fits"}),
       Stmt("always", {"dss_data"}, {"dss"}),
       Stmt("always", {"dss_wcs"}, {"WCS", "dss"}),
       Stmt("always", {"ax"}, {"dss_wcs", "plt"}),
       Stmt("always", {}, {"ax", "dss_data"}),
       Stmt("always", {}, {"ax", "tic_dec", "tic_ra"}),
       Stmt("always", {}, {"ax"}),
       Stmt("always", {}, {"ax"}),
       Stmt("always", {}, {"ax"})
     >>,
     \* lines 494-495
     <<
       Stmt("always", {"footprint", "reproj_tesscut"}, {"data", "dss_data", "dss_wcs",
           "reproject_interp", "wcs"})
     >>,
     \* lines 511-546
     <<
       Stmt("always", {"create_plot"}, {})
     >>,
     \* lines 568-575
     <<
       Stmt("always", {"interactive_plot"}, {"create_plot", "dss_data", "dss_wcs", "fixed",
           "interactive", "norm", "reproj_tesscut", "tic_dec", "tic_ra"}),
       Stmt("always", {"output"}, {"interactive_plot"}),
       Stmt("always", {}, {"output"}),
       Stmt("always", {}, {"interactive_plot"})
     >>
  >>

\* The code cells of wildcard_searches.ipynb, top to bottom.
ProgramWildcard ==
  <<
     \* lines 81-87
     <<
       Stmt("always", {"u"}, {}),
       Stmt("always", {"plt"}, {}),
       Stmt("always", {"SkyCoord"}, {}),
       Stmt("always", {"Table", "unique", "vstack"}, {}),
       Stmt("always", {"Time"}, {}),
       Stmt("always", {"Observations"}, {})
     >>,
     \* lines 128-128
     <<
       Stmt("always", {}, {"Observations"})
     >>,
     \* lines 161-163
     <<
       Stmt("always", {"observations"}, {"Observations"}),
       Stmt("always", {}, {"observations"})
     >>,
     \* lines 181-181
     <<
       Stmt("always", {}, {"observations"})
     >>,
     \* lines 211-213
     <<
       Stmt("always", {"observations"}, {"Observations"}),
       Stmt("always", {}, {"observations"})
     >>,
     \* lines 250-254
     <<
       Stmt("always", {"observations"}, {"Observations"}),
       Stmt("always", {}, {"observations"})
     >>,
     \* lines 281-286
     <<
       Stmt("always", {"observations"}, {"Observations"}),
       Stmt("always", {}, {"observations"}),
       Stmt("always", {}, {}),
       Stmt("always", {}, {"observations"})
     >>,
     \* lines 311-313
     <<
       Stmt("always", {"mask"}, {"observations"}),
       Stmt("always", {"filtered_observations"}, {"mask", "observations"}),
       Stmt("always", {}, {"filtered_observations"})
     >>,
     \* lines 331-331
     <<
       Stmt("always", {}, {"filtered_observations"})
     >>,
     \* lines 349-351
     <<
       Stmt("always", {"ephemeris"}, {"Table", "filtered_observations"})
     >>,
     \* lines 369-370
     <<
       Stmt("always", {}, {"ephemeris"}),
       Stmt("always", {}, {"ephemeris"})
     >>,
     \* lines 380-390
     <<
       Stmt("always", {}, {"plt"}),
       Stmt("always", {}, {"ephemeris", "plt"}),
       Stmt("always", {}, {"plt"}),
       Stmt("always", {}, {"plt"}),
       Stmt("always", {}, {"plt"}),
       Stmt("always", {}, {"plt"}),
       Stmt("always", {}, {"plt"}),
       Stmt("always", {}, {"plt"})
     >>,
     \* lines 408-408
     <<
       Stmt("always", {}, {"ephemeris"})
     >>
  >>

\* The code cells of notebook_template.ipynb, top to bottom.
ProgramTemplate ==
  <<
     \* lines 75-83
     <<
       Stmt("always", {}, {}),
       Stmt("always", {"plt"}, {}),
       Stmt("always", {"np"}, {}),
       Stmt("always", {"fits"}, {}),
       Stmt("always", {"Table"}, {}),
       Stmt("always", {"Mast"}, {}),
       Stmt("always", {"Observations"}, {})
     >>,
     \* lines 153-156
     <<
       Stmt("always", {"keplerObs"}, {"Observations"}),
       Stmt("always", {"keplerProds"}, {"Observations", "keplerObs"}),
       Stmt("always", {"yourProd"}, {"Observations", "keplerProds"})
     >>,
     \* lines 179-179
     <<
       Stmt("always", {}, {"yourProd"})
     >>,
     \* lines 188-190
     <<
       Stmt("always", {"output"}, {"Observations", "yourProd"}),
       Stmt("always", {}, {"output"})
     >>,
     \* lines 218-223
     <<
       Stmt("always", {"file"}, {"output"}),
       Stmt("always", {}, {}),
       Stmt("always", {}, {"file", "fits"}),
       [Stmt("always", {"data"}, {"file", "fits"}) EXCEPT !.input = {"data"}],
       Stmt("always", {"time"}, {"file", "fits"})
     >>,
     \* lines 250-260
     <<
       Stmt("always", {"imgs"}, {}),
       [Stmt("always", {"axs", "fig"}, {"imgs", "plt"}) EXCEPT !.create = {<<"axs", 4>>}],
       For("idx", "", 4, 3, {"imgs"}),
       [Stmt("always", {}, {"axs", "data", "idx"}) EXCEPT !.idxVar = {"axs", "data"}],
       [Stmt("always", {}, {"axs", "idx"}) EXCEPT !.idxVar = {"axs"}],
       [Stmt("always", {}, {"axs", "idx"}) EXCEPT !.idxVar = {"axs"}]
     >>,
     \* lines 276-281
     <<
       [Stmt("always", {"lightcurve"}, {}) EXCEPT !.create = {<<"lightcurve", 0>>}],
       For("idx", "data", 0, 2, {"data"}),
       [Stmt("always", {"flux"}, {"data", "idx"}) EXCEPT !.idxVar = {"data"}],
       [Stmt("always", {}, {"flux", "lightcurve"}) EXCEPT !.append = {"lightcurve"}]
     >>,
     \* lines 290-299
     <<
       Stmt("always", {}, {"plt"}),
       Stmt("always", {}, {"lightcurve", "plt", "time"}),
       Stmt("always", {"obj"}, {"file", "fits"}),
       Stmt("always", {}, {"obj", "plt"}),
       Stmt("always", {}, {"plt"}),
       Stmt("always", {}, {"plt"}),
       Stmt("always", {}, {"plt"})
     >>
  >>

\* The code cells of part_000, top to bottom.
ProgramSolutions ==
  <<
     \* lines 40-50
     <<
       Stmt("always", {"fits"}, {}),
       Stmt("always", {"Table"}, {}),
       Stmt("always", {"u"}, {}),
       Stmt("always", {"plt"}, {}),
       Stmt("always", {"np"}, {}),
       Stmt("always", {"Tesscut"}, {}),
       Stmt("always", {"time_support"}, {}),
       Stmt("always", {"lk"}, {}),
       Stmt("always", {}, {})
     >>,
     \* lines 60-73
     <<
       Stmt("always", {"objname"}, {}),
       [Stmt("always", {"hdulist"}, {"Tesscut", "objname"}) EXCEPT !.input = {"hdulist"}],
       Stmt("always", {"nsectors"}, {"hdulist"}),
       For("i", "hdulist", 0, 1, {"nsectors"}),
       [Stmt("always", {}, {"hdulist", "i", "objname"}) EXCEPT !.idxVar = {"hdulist"}],
       For("i", "hdulist", 0, 3, {"nsectors"}),
       Stmt("always", {"tpf"}, {"i", "lk", "objname"}),
       [Stmt("first", {"tpfc"}, {"lk", "tpf"}) EXCEPT !.create = {<<"tpfc", 1>>}],
       [Stmt("later", {}, {"tpf", "tpfc"}) EXCEPT !.append = {"tpfc"}]
     >>,
     \* lines 83-91
     <<
       For("i", "hdulist", 0, 3, {"nsectors"}),
       [Stmt("always", {"lc"}, {"i", "tpfc"}) EXCEPT !.idxVar = {"tpfc"}],
       [Stmt("first", {"lcc"}, {"lc", "lk"}) EXCEPT !.create = {<<"lcc", 1>>}],
       [Stmt("later", {}, {"lc", "lcc"}) EXCEPT !.append = {"lcc"}],
       [Stmt("always", {}, {"lcc"}) EXCEPT !.idxConst = {<<"lcc", 0>>}],
       [Stmt("always", {}, {"lcc"}) EXCEPT !.idxConst = {<<"lcc", 1>>}],
       [Stmt("always", {}, {"lcc"}) EXCEPT !.idxConst = {<<"lcc", 1>>}]
     >>,
     \* lines 110-113
     <<
       [Stmt("always", {}, {"tpfc"}) EXCEPT !.idxConst = {<<"tpfc", 0>>}]
     >>,
     \* lines 134-138
     <<
       Stmt("always", {}, {"time_support"}),
       Stmt("always", {}, {"lc", "plt"}),
       [Stmt("always", {}, {"lcc", "plt"}) EXCEPT !.idxConst = {<<"lcc", 1>>}],
       Stmt("always", {}, {"plt"})
     >>,
     \* lines 157-163
     <<
       [Stmt("always", {"pg0"}, {"lcc"}) EXCEPT !.idxConst = {<<"lcc", 0>>}],
       [Stmt("always", {"pg1"}, {"lcc"}) EXCEPT !.idxConst = {<<"lcc", 1>>}],
       Stmt("always", {}, {"pg0", "u"}),
       Stmt("always", {}, {"pg1", "u"})
     >>,
     \* lines 173-190
     <<
       Stmt("always", {"diff1"}, {"fits"}),
       Stmt("always", {}, {"diff1"}),
       Stmt("always", {}, {"diff1"}),
       Stmt("always", {"diff1_ignore"}, {"fits"}),
       Stmt("always", {}, {"diff1_ignore"}),
       Stmt("always", {"diff2_ignore"}, {"fits"}),
       Stmt("always", {}, {"diff2_ignore"})
     >>,
     \* lines 210-216
     <<
       Stmt("always", {"objname2"}, {}),
       Stmt("always", {"sector_table2"}, {"Tesscut", "objname2"}),
       Stmt("always", {}, {"sector_table2"}),
       Stmt("always", {"hdulist2"}, {"Tesscut", "objname2"})
     >>,
     \* lines 226-229
     <<
       Stmt("always", {"i"}, {}),
       Stmt("always", {}, {"hdulist2", "i", "objname2"}),
       Stmt("always", {"tpf2"}, {"i", "lk", "objname2"}),
       Stmt("always", {}, {"tpf2"})
     >>,
     \* lines 247-249
     <<
       Stmt("always", {"lc2"}, {"tpf2"}),
       Stmt("always", {"lc2"}, {"lc2"}),
       Stmt("always", {}, {"lc2"})
     >>,
     \* lines 259-262
     <<
       Stmt("always", {"pg2"}, {"lc2"}),
       Stmt("always", {}, {"pg2"}),
       Stmt("always", {}, {"pg2", "u"}),
       Stmt("always", {}, {"pg2", "u"})
     >>,
     \* lines 272-273
     <<
       Stmt("always", {}, {"lc2", "pg2"})
     >>,
     \* lines 293-304
     <<
       Stmt("always", {"MPC"}, {}),
       [Stmt("always", {"eph1"}, {"MPC", "lcc"}) EXCEPT !.idxConst = {<<"lcc", 0>>}],
       [Stmt("always", {"eph2"}, {"MPC", "lcc"}) EXCEPT !.idxConst = {<<"lcc", 0>>}],
       [Stmt("always", {"eph3"}, {"MPC", "lcc"}) EXCEPT !.idxConst = {<<"lcc", 1>>}],
       [Stmt("always", {"eph4"}, {"MPC", "lcc"}) EXCEPT !.idxConst = {<<"lcc", 1>>}],
       Stmt("always", {"columns"}, {}),
       Stmt("always", {}, {"columns", "eph1"}),
       Stmt("always", {}, {"columns", "eph2"}),
       Stmt("always", {}, {"columns", "eph3"}),
       Stmt("always", {}, {"columns", "eph4"})
     >>,
     \* lines 314-317
     <<
       [Stmt("always", {}, {"lcc", "np"}) EXCEPT !.idxConst = {<<"lcc", 0>>}],
       [Stmt("always", {}, {"lcc", "np"}) EXCEPT !.idxConst = {<<"lcc", 1>>}],
       [Stmt("always", {}, {"lcc", "np"}) EXCEPT !.idxConst = {<<"lcc", 0>>, <<"lcc", 1>>}]
     >>
  >>

Notebooks == {"tess", "wildcard", "template", "solutions"}

Program(nb) ==
    CASE nb = "tess"      -> ProgramTess
      [] nb = "wildcard"  -> ProgramWildcard
      [] nb = "template"  -> ProgramTemplate
      [] nb = "solutions" -> ProgramSolutions
      [] OTHER            -> <<>>

\* The collections whose length the statements depend on.
Tracked == {"hdulist", "tpfc", "lcc", "data", "axs", "lightcurve"}

NoLoop == [on |-> FALSE, head |-> 0, i |-> 0, n |-> 0]

IdleRun ==
    [nb |-> "none", cell |-> 0, pc |-> 0, loop |-> NoLoop, names |-> {},
     lens |-> [c \in Tracked |-> 0], executed |-> <<>>, status |-> "idle", exc |-> "none"]

CurCell(r) == Program(r.nb)[r.cell]
CurStmt(r) == CurCell(r)[r.pc]

\* The body of the running loop has been executed to its end.
LoopEnd(r) ==
    /\ r.status = "running"
    /\ r.loop.on
    /\ r.pc = r.loop.head + CurCell(r)[r.loop.head].body + 1

AtStmt(r, op) ==
    /\ r.status = "running"
    /\ ~LoopEnd(r)
    /\ r.pc <= Len(CurCell(r))
    /\ CurStmt(r).op = op

\* A statement of a branch the iteration does not take.
Skipped(st, r) ==
    \/ st.when = "first" /\ r.loop.i # 0
    \/ st.when = "later" /\ r.loop.i = 0

\* The exception statement st raises, "none" if it raises none: a name not
\* bound yet, an index past the end of a collection.
Raises(st, r) ==
    IF ~(st.uses \subseteq r.names) THEN "NameError"
    ELSE IF \/ \E x \in st.idxConst : x[2] >= r.lens[x[1]]
            \/ \E c \in st.idxVar : r.loop.i >= r.lens[c]
         THEN "IndexError"
         ELSE "none"

\* The lengths after statement st, m being the length of what a library
\* call of st returned.
LensAfter(st, r, m) ==
    [c \in Tracked |->
        IF c \in st.input THEN m
        ELSE IF \E x \in st.create : x[1] = c
             THEN (CHOOSE x \in st.create : x[1] = c)[2]
             ELSE IF c \in st.append THEN r.lens[c] + 1 ELSE r.lens[c]]

\* The user chooses Run All in a fresh kernel: the first cell starts.
RunAll(nb) ==
    /\ run.status = "idle"
    /\ Len(Program(nb)) > 0
    /\ run' = [IdleRun EXCEPT
                 !.nb = nb, !.cell = 1, !.pc = 1, !.status = "running",
                 !.executed = [c \in 1..Len(Program(nb)) |-> IF c = 1 THEN 1 ELSE 0]]

\* One statement that is not a for.  An exception ends the run.
ExecStmt(m) ==
    /\ AtStmt(run, "stmt")
    /\ m \in 0..MaxLen
    /\ LET st == CurStmt(run) IN
       /\ (st.input = {} \/ Skipped(st, run) \/ Raises(st, run) # "none") => m = 0
       /\ run' = IF Skipped(st, run)
                 THEN [run EXCEPT !.pc = @ + 1]
                 ELSE IF Raises(st, run) # "none"
                      THEN [run EXCEPT !.status = "error", !.exc = Raises(st, run)]
                      ELSE [run EXCEPT !.pc = @ + 1,
                                       !.names = @ \cup st.defs,
                                       !.lens = LensAfter(st, run, m)]

\* A for statement: range(...) is evaluated once; an empty range skips the
\* body and leaves the loop variable unbound.
ForEnter ==
    /\ AtStmt(run, "for")
    /\ LET st == CurStmt(run)
           n  == IF st.over = "" THEN st.n ELSE run.lens[st.over]
       IN  run' = IF ~(st.uses \subseteq run.names)
                  THEN [run EXCEPT !.status = "error", !.exc = "NameError"]
                  ELSE IF n = 0
                       THEN [run EXCEPT !.pc = @ + st.body + 1]
                       ELSE [run EXCEPT !.pc = @ + 1,
                                        !.names = @ \cup {st.var},
                                        !.loop = [on |-> TRUE, head |-> run.pc, i |-> 0, n |-> n]]

\* The end of the body: the next value of the range, or the loop is over.
ForNext ==
    /\ LoopEnd(run)
    /\ run' = IF run.loop.i + 1 < run.loop.n
              THEN [run EXCEPT !.loop.i = @ + 1, !.pc = run.loop.head + 1]
              ELSE [run EXCEPT !.loop = NoLoop]

\* The end of a cell: the next cell starts, or the run is over.
CellEnd ==
    /\ run.status = "running"
    /\ ~LoopEnd(run)
    /\ run.pc > Len(CurCell(run))
    /\ run' = IF run.cell < Len(Program(run.nb))
              THEN [run EXCEPT !.cell = @ + 1, !.pc = 1, !.executed[run.cell + 1] = @ + 1]
              ELSE [run EXCEPT !.status = "done"]

(***************************************************************************)
(* The specifications.                                                     *)
(***************************************************************************)
InitDssVars ==
    /\ fs \in InitialFileSystems
    /\ dss = IdleDss
    /\ requests = <<>>
    /\ prevCall = NoCall
    /\ ncalls = 0

InitCellVars ==
    /\ globals = SetupGlobals
    /\ exec = NoExec
    /\ gifExists = FALSE
    /\ nruns = 0

InitQueryVars ==
    /\ archive = {}
    /\ observations = {}
    /\ answers = <<>>
    /\ nqueries = 0

InitWidgetVars ==
    /\ env = [n \in GlobalNames |-> Unbound]
    /\ widget = NoWidget
    /\ plotCall = NoPlot
    /\ nmoves = 0

InitExtraVars == InitWidgetVars /\ book = NoBook /\ run = IdleRun

\* Calls of getdss by a user of the function.
Init == InitDssVars /\ InitCellVars /\ InitQueryVars /\ InitExtraVars

CallFrom(argSet) ==
    /\ \E a \in argSet : GetdssCall(a)
    /\ UNCHANGED <<cellVars, queryVars, extraVars>>

ResponseFrom(contents) ==
    /\ \E c \in contents : GetdssResponse(c)
    /\ UNCHANGED <<cellVars, queryVars, extraVars>>

RequestFails ==
    /\ GetdssRequestFails
    /\ UNCHANGED <<cellVars, queryVars, extraVars>>

NextSize == CallFrom(SizeArgs) \/ ResponseFrom(FewContents) \/ RequestFails
SpecSize == Init /\ [][NextSize]_vars

NextPlate == CallFrom(PlateArgs) \/ ResponseFrom(FewContents) \/ RequestFails
SpecPlate == Init /\ [][NextPlate]_vars

NextWrite == CallFrom(WriteArgs) \/ ResponseFrom(AllContents) \/ RequestFails
SpecWrite == Init /\ [][NextWrite]_vars

NextName == CallFrom(NameArgs) \/ ResponseFrom(FewContents) \/ RequestFails
SpecName == Init /\ [][NextName]_vars

\* A session of the TESS notebook (and the remote-call cells of the others).
InitCells ==
    /\ fs = <<>> /\ dss = IdleDss /\ requests = <<>> /\ prevCall = NoCall /\ ncalls = 0
    /\ globals = SetupGlobals
    /\ exec = NoExec
    /\ gifExists \in BOOLEAN
    /\ nruns = 0
    /\ InitQueryVars
    /\ InitExtraVars

RunDownload ==
    /\ \E outcome \in {"ok", "Exception", "BaseException"} : DownloadCell(outcome)
    /\ UNCHANGED <<dssVars, queryVars, extraVars>>

RunOpenTpf == OpenTpfCell /\ UNCHANGED <<dssVars, queryVars, extraVars>>

RunCreateGif ==
    /\ \E saved \in BOOLEAN : CreateGifCell(saved)
    /\ UNCHANGED <<dssVars, queryVars, extraVars>>

RunDisplayGif == DisplayGifCell /\ UNCHANGED <<dssVars, queryVars, extraVars>>

RunStraight ==
    /\ \E c \in DOMAIN CellProgram : \E k \in 0..Len(CellProgram[c]) : StraightCell(c, k)
    /\ UNCHANGED <<dssVars, queryVars, extraVars>>

RunGetdss == GetdssCellStart /\ UNCHANGED <<queryVars, extraVars>>

RunGetdssFails == GetdssCellRequestFails /\ UNCHANGED <<queryVars, extraVars>>

RunGetdssResponse ==
    /\ \E c \in FewContents : GetdssCellResponse(c)
    /\ UNCHANGED <<queryVars, extraVars>>

NextCells ==
    \/ RunDownload \/ RunOpenTpf \/ RunCreateGif \/ RunDisplayGif \/ RunStraight
    \/ RunGetdss \/ RunGetdssFails \/ RunGetdssResponse
SpecCells == InitCells /\ [][NextCells]_vars

\* Queries against an archive.
InitQuery ==
    /\ InitDssVars /\ fs = <<>>
    /\ InitCellVars
    /\ InitExtraVars
    /\ archive \in SUBSET Universe
    /\ observations = {}
    /\ answers = <<>>
    /\ nqueries = 0

RunQuery ==
    /\ \E q \in Queries : Query(q)
    /\ UNCHANGED <<dssVars, cellVars, extraVars>>

NextQuery == RunQuery
SpecQuery == InitQuery /\ [][NextQuery]_vars

\* A session with the interactive overlay: the cells above it have run.
SliderRequests == {AlphaMin - 1, AlphaMin, AlphaMin + 3, AlphaMax, AlphaMax + 1}

InitWidget ==
    /\ InitDssVars /\ fs = <<>>
    /\ InitCellVars
    /\ InitQueryVars
    /\ env = OverlayGlobals
    /\ widget = NoWidget
    /\ plotCall = NoPlot
    /\ nmoves = 0
    /\ book = NoBook
    /\ run = IdleRun

RunRerun ==
    /\ \E c \in DOMAIN CellAssigns : RerunCell(c)
    /\ UNCHANGED <<dssVars, globals, exec, gifExists, queryVars, bookVars, runVars>>

RunInteractive ==
    /\ InteractiveCell
    /\ UNCHANGED <<dssVars, globals, exec, gifExists, queryVars, bookVars, runVars>>

RunSlider ==
    /\ \E v \in SliderRequests : SliderMove(v)
    /\ UNCHANGED <<dssVars, globals, exec, gifExists, queryVars, bookVars, runVars>>

NextWidget == RunRerun \/ RunInteractive \/ RunSlider
SpecWidget == InitWidget /\ [][NextWidget]_vars

\* A build of the book from the table of contents.
InitBook ==
    /\ InitDssVars /\ fs = <<>>
    /\ InitCellVars
    /\ InitQueryVars
    /\ InitWidgetVars
    /\ run = IdleRun
    /\ book = NoBook

RunBookEntry ==
    /\ \E there \in BOOLEAN : BookEntry(there)
    /\ UNCHANGED <<dssVars, cellVars, queryVars, widgetVars, runVars>>

RunBookDone ==
    /\ BookDone
    /\ UNCHANGED <<dssVars, cellVars, queryVars, widgetVars, runVars>>

NextBook == RunBookEntry \/ RunBookDone
SpecBook == InitBook /\ [][NextBook]_vars

\* Run All of one of the notebooks.
InitRun ==
    /\ InitDssVars /\ fs = <<>>
    /\ InitCellVars
    /\ InitQueryVars
    /\ InitWidgetVars
    /\ book = NoBook
    /\ run = IdleRun

RunRunAll ==
    /\ \E nb \in Notebooks : RunAll(nb)
    /\ UNCHANGED <<dssVars, cellVars, queryVars, widgetVars, bookVars>>

RunExecStmt ==
    /\ \E m \in 0..MaxLen : ExecStmt(m)
    /\ UNCHANGED <<dssVars, cellVars, queryVars, widgetVars, bookVars>>

RunForEnter ==
    /\ ForEnter
    /\ UNCHANGED <<dssVars, cellVars, queryVars, widgetVars, bookVars>>

RunForNext ==
    /\ ForNext
    /\ UNCHANGED <<dssVars, cellVars, queryVars, widgetVars, bookVars>>

RunCellEnd ==
    /\ CellEnd
    /\ UNCHANGED <<dssVars, cellVars, queryVars, widgetVars, bookVars>>

NextRun == RunRunAll \/ RunExecStmt \/ RunForEnter \/ RunForNext \/ RunCellEnd
SpecRun == InitRun /\ [][NextRun]_vars

\* Everything together.
Next == NextName \/ NextCells \/ NextQuery \/ NextWidget \/ NextBook \/ NextRun
Spec == Init /\ [][Next]_vars

(***************************************************************************)
(* The properties.                                                         *)
(***************************************************************************)
\* Whether a byte string begins with the nine bytes "SIMPLE  =".
BeginsWithSimple(c) ==
    /\ Len(c) >= 9
    /\ c[1] = "S" /\ c[2] = "I" /\ c[3] = "M" /\ c[4] = "P" /\ c[5] = "L" /\ c[6] = "E"
    /\ c[7] = " " /\ c[8] = " " /\ c[9] = "="

Called == dss.pc # "idle"

\* C1: getdss resolves the image size as its docstring states: with neither
\* height nor width given both are 7.0 (700 hundredths of an arcmin); with
\* exactly one given the other takes the same value; with both given each is
\* kept, and the request carries the resolved height and width as h and w.
C1_SizeResolved ==
    Called =>
        LET a == dss.args
        IN  /\ (a.height = NoneNum /\ a.width = NoneNum) => (dss.height = 700 /\ dss.width = 700)
            /\ (a.height = NoneNum /\ a.width # NoneNum) =>
                   (dss.height = a.width /\ dss.width = a.width)
            /\ (a.height # NoneNum /\ a.width = NoneNum) =>
                   (dss.height = a.height /\ dss.width = a.height)
            /\ (a.height # NoneNum /\ a.width # NoneNum) =>
                   (dss.height = a.height /\ dss.width = a.width)
            /\ \A i \in 1..Len(requests) :
                   requests[i].h = dss.height /\ requests[i].w = dss.width

\* A request was sent by a call given the height only, and the height is 0.
C1_Witness ==
    /\ dss.args.height = 0 /\ dss.args.width = NoneNum
    /\ Len(requests) = 1 /\ requests[1].w = 0

\* C2: getdss accepts exactly the plates "red", "blue", "ukred" and "ukblue":
\* for any other plate it raises ValueError, having sent no request and opened
\* or written no file, so the file system is as it was at the call.
C2_PlateChecked ==
    Called =>
        IF dss.args.plate \in {PlateRed, PlateBlue, PlateUkred, PlateUkblue}
        THEN dss.exc # "ValueError: Illegal plate value"
        ELSE /\ dss.pc = "raised"
             /\ dss.exc = "ValueError: Illegal plate value"
             /\ requests = <<>>
             /\ dss.opened = {}
             /\ fs = dss.fs0

\* A second call, with the plate "Red", raised after a first call wrote a file.
C2_Witness ==
    /\ dss.args.plate = PlateCapital
    /\ dss.pc = "raised"
    /\ ncalls = 2
    /\ prevCall.path \in DOMAIN fs /\ fs[prevCall.path] = FitsA

\* C3: whenever getdss returns normally, the returned path is the path that
\* was opened for writing in that call, and that file holds exactly the content
\* of the response, which begins with "SIMPLE  =".
C3_ReturnsWrittenFile ==
    dss.pc = "returned" =>
        /\ dss.opened = {dss.ret}
        /\ dss.ret \in DOMAIN fs
        /\ fs[dss.ret] = dss.content
        /\ BeginsWithSimple(fs[dss.ret])

\* getdss returned after it wrote over a file that existed with another content.
C3_Witness ==
    /\ dss.pc = "returned"
    /\ dss.ret \in DOMAIN dss.fs0
    /\ dss.fs0[dss.ret] = OldContent
    /\ fs[dss.ret] = FitsB

\* C4: when the response does not start with "SIMPLE  =", getdss raises
\* ValueError and neither creates nor modifies the output file: the file system
\* is as it was at the call.
C4_NoFitsNoFile ==
    (dss.pc \in {"returned", "raised"} /\ dss.content # NoneStr /\ ~BeginsWithSimple(dss.content)) =>
        /\ dss.pc = "raised"
        /\ dss.exc = "ValueError: No FITS file returned"
        /\ dss.opened = {}
        /\ fs = dss.fs0

\* The response had one space after SIMPLE, and the output file existed and
\* kept its content.
C4_Witness ==
    /\ dss.pc = "raised"
    /\ dss.content = OneSpace
    /\ dss.filename \in DOMAIN fs
    /\ fs[dss.filename] = OldContent

\* "{:.6f}".format of the angles of the model, as Python prints them.
SixDecimals(x) ==
    CASE x = 665826180  -> <<"6", "6", ".", "5", "8", "2", "6", "1", "8">>
      [] x = 665826184  -> <<"6", "6", ".", "5", "8", "2", "6", "1", "8">>
      [] x = 15000000   -> <<"1", ".", "5", "0", "0", "0", "0", "0">>
      [] x = -678065080 -> <<"-", "6", "7", ".", "8", "0", "6", "5", "0", "8">>

\* C5: with no filename argument the name is "dss_{plate}_{ra}_{dec}.fits",
\* built from the call's plate, ra and dec (the angles written with six
\* decimals); an explicit filename is used as given; without a directory the
\* name is the path, and the path differs from the name only when a directory is
\* given, in which case a relative name follows the directory and a "/"; two
\* calls with the same arguments yield the same path.
C5_NamedAsDocumented ==
    dss.named =>
        LET a == dss.args
            name == IF a.filename = NoneStr
                    THEN <<"d", "s", "s", "_">> \o a.plate \o <<"_">> \o SixDecimals(a.ra)
                         \o <<"_">> \o SixDecimals(a.dec) \o <<".", "f", "i", "t", "s">>
                    ELSE a.filename
            given == a.directory # NoneStr /\ a.directory # <<>>
        IN  /\ ~given => dss.filename = name
            /\ dss.filename # name => given
            /\ (given /\ name[1] # "/") => dss.filename = a.directory \o <<"/">> \o name
            /\ prevCall.args = a => prevCall.path = dss.filename

\* A second call with the arguments of the first: the default name, in a directory.
C5_Witness ==
    /\ dss.named
    /\ dss.args.filename = NoneStr
    /\ dss.args.directory = DirData
    /\ dss.args.ra = NotebookRa + 4
    /\ prevCall.args = dss.args
    /\ dss.pc = "returned"

NoDuplicates(seq) == \A i, j \in 1..Len(seq) : seq[i] = seq[j] => i = j

\* C6: in one execution of a cell every remote call is issued at most once, and
\* a call that failed is the last one issued: it is not issued again, and
\* getdss sends at most one request per call.
C6_NoRetry ==
    /\ NoDuplicates(exec.issued)
    /\ exec.failed # "none" =>
           /\ exec.issued # <<>>
           /\ exec.issued[Len(exec.issued)] = exec.failed
    /\ Len(requests) <= 1

\* Tesscut.download_cutouts failed in the download cell, which completed.
C6_Witness ==
    /\ exec.cell = "download"
    /\ exec.failed = "Tesscut.download_cutouts"
    /\ exec.status = "done"
    /\ exec.issued = <<"Tesscut.download_cutouts">>

\* C7: an Exception of Tesscut.download_cutouts is caught: the message
\* 'Error: Could not download cutouts: ...' is printed and the cell completes
\* without raising; the table is printed and files is assigned only when the
\* call raised nothing.
C7_DownloadFailureHandled ==
    exec.cell = "download" =>
        /\ exec.exc = "Exception" =>
               /\ exec.status = "done"
               /\ exec.printed = <<"Error: Could not download cutouts: e">>
        /\ (\E i \in 1..Len(exec.printed) : exec.printed[i] = "table") => exec.exc = "none"
        /\ "files" \in exec.assigned => exec.exc = "none"

\* The download raised an Exception in a session where files was never assigned.
C7_Witness ==
    /\ exec.cell = "download"
    /\ exec.exc = "Exception"
    /\ exec.status = "done"
    /\ "files" \notin globals

\* C8: when no gif file exists at display time, the display cell reports
\* "No gif found. Cannot display gif of time-series." and does not go on to
\* evaluate Image(gif, embed=True).
C8_MissingGifNotDisplayed ==
    (exec.cell = "display_gif"
        /\ exec.printed = <<"No gif found. Cannot display gif of time-series.">>) =>
        "Image(gif, embed=True)" \notin exec.evaluated

\* C9: "%" stands for exactly one character: the query of Case 2, with
\* proposal_id "15%%", returns exactly the observations of the PI with a NIRISS
\* instrument name whose proposal_id has length four and begins with "15".
C9_FourCharacters ==
    "case2" \in DOMAIN answers =>
        answers["case2"] =
            {o \in archive :
                /\ o.proposal_pi = PiEspinoza
                /\ Len(o.instrument_name) >= 6
                /\ SubSeq(o.instrument_name, 1, 6) = <<"N", "I", "R", "I", "S", "S">>
                /\ Len(o.proposal_id) = 4
                /\ SubSeq(o.proposal_id, 1, 2) = <<"1", "5">>}

\* Case 2 returned an observation, and left out observations of the PI and
\* the instrument whose proposal_id begins with "15" and is shorter or longer.
C9_Witness ==
    /\ "case2" \in DOMAIN answers
    /\ answers["case2"] # {}
    /\ \E o \in archive \ answers["case2"] : o.proposal_id = <<"1", "5", "4">>
    /\ \E o \in archive \ answers["case2"] : o.proposal_id = <<"1", "5", "4", "1", "2">>

Asked(q) == q \in DOMAIN answers

HasInstrument(result, name) == \E o \in result : o.instrument_name = name

CalledAfterRebinding ==
    /\ plotCall.made
    /\ nmoves > 0
    /\ \E p \in DOMAIN FixedArgs : plotCall.before[FixedArgs[p]] # widget.globals0[FixedArgs[p]]

C12_EveryNotebookListed ==
    book.done => \A n \in NotebooksPresent : n \in book.pages

\* C13: a top-to-bottom execution of a notebook in which every library call
\* returns ends having executed every code cell once.
C13_RunsEveryCell ==
    run.status \in {"done", "error"} =>
        /\ run.status = "done"
        /\ \A c \in 1..Len(Program(run.nb)) : run.executed[c] = 1

====
